---- MODULE Spec2Model ----
(***************************************************************************)
(* Model of src/data/db/db_tasks.py: the ingestion of the four raw road    *)
(* accident CSV files into the relational store, through one SQLAlchemy    *)
(* session per run of main.                                                *)
(*                                                                         *)
(* The store is modelled by its committed content (ledger, tables) and     *)
(* the session by its unit of work: objects added but not flushed          *)
(* (pendingRows, the in-memory ledger objects of file2model), rows flushed *)
(* into the open transaction (txRows, txLedger) and the state of the       *)
(* transaction (sess).  The session autoflushes before every query and     *)
(* before every load of an expired attribute, expires every object on      *)
(* commit, and after a flush that failed inside commit() it refuses every  *)
(* database operation until rollback() is called (PendingRollbackError).   *)
(***************************************************************************)
EXTENDS Integers, Sequences, FiniteSets, TLC

\* ---------------------------------------------------------------- bounds
MaxRuns == 2        \* runs of main in one behaviour
MaxFaults == 2      \* load failures, rejected flushes and process exits
MaxEdits == 1       \* changes of the raw files directory between runs
MaxHash == 5        \* distinct file contents (md5 values)
NRows == 2          \* rows of one raw file
MaxSeen == 2        \* file contents of SpecOne: directory and earlier runs
MaxRejects == 2     \* OperationalErrors met by one call of init_db
MaxOthers == 1      \* second processes of main started in one behaviour

\* ------------------------------------------------------- fixed vocabulary
\* order_files with the last two loads exchanged
order_files_users_first ==
    << "caracteristiques", "lieux", "usagers", "vehicules" >>

\* RawRoadAccidentCsvFileNames, in the order of order_files
order_files == << "caracteristiques", "lieux", "vehicules", "usagers" >>

Types == { order_files[i] : i \in 1..Len(order_files) }

Hashes == 1..MaxHash

RowIds == Hashes \X (1..NRows)

OrderIndex(t) == CHOOSE i \in 1..Len(order_files) : order_files[i] = t

\* the table a logical type is loaded into (lines 105-112)
table_model(t) ==
    IF t = "caracteristiques" THEN "Caracteristiques"
    ELSE IF t = "lieux" THEN "Lieux"
    ELSE IF t = "usagers" THEN "Users"
    ELSE "Vehicules"

Tables == { table_model(t) : t \in Types }

NoReason == "none"
ExceptionRaised == "Exception raised"

VARIABLES
    pc,           \* position of the process in main
    run,          \* number of runs of main started so far
    dir,          \* raw files directory: type -> md5 of its file, 0 = no file
    files,        \* file2model of the current run: type -> descriptor
    examined,     \* descriptors already visited by the loop of line 68
    idx,          \* position of the loop of line 97 in order_files
    sess,         \* "active", or "deactive" after a flush failed in commit()
    ledger,       \* committed rows of the RawRoadAccidentsCsvFile table
    txLedger,     \* the ledger as seen by the open transaction
    tables,       \* committed rows of the entity tables: table -> row -> count
    txRows,       \* entity rows flushed in the open transaction, uncommitted
    pendingRows,  \* entity rows added to the session, not flushed
    attempts,     \* history: types whose load was attempted in this run
    results,      \* history: outcome of each type's load in this run
    ledger0,      \* history: committed ledger when the run started
    tables0,      \* history: committed tables when the run started
    kills,        \* history: process exits forced from outside
    fails,        \* history: load failures and rejected flushes
    edits,        \* history: changes of the directory
    done,         \* history: runs of main that reached the siesta
    initdb,       \* init_db of the current run: attempts, sleeps, errors met
    other         \* a second process of main that overlaps the current run

vars == << pc, run, dir, files, examined, idx, sess, ledger, txLedger, tables,
           txRows, pendingRows, attempts, results, ledger0, tables0,
           kills, fails, edits, done, initdb, other >>

\* ------------------------------------------------------------ descriptors
\* RawRoadAccidentsCsvFile built by get_road_accident_file2model for the file
\* of one type; a type without file is not in the mapping
NoFile == [present |-> FALSE, md5 |-> 0, processing_status |-> "pending",
           reason |-> NoReason, inSession |-> FALSE]

get_road_accident_file2model(d) ==
    [t \in Types |->
        IF d[t] = 0 THEN NoFile
        ELSE [present |-> TRUE, md5 |-> d[t], processing_status |-> "pending",
              reason |-> NoReason, inSession |-> FALSE]]

Present(f) == { t \in Types : f[t].present }

\* get_dataframe: the rows of the file of content h, as rows of table tb
get_dataframe(tb, h) == { << tb, << h, i >> >> : i \in 1..NRows }

\* the first k-1 rows: those converted before the conversion of row k raised
RowsBefore(tb, h, k) == { << tb, << h, i >> >> : i \in 1..(k-1) }

\* --------------------------------------------------------------- session
\* ledger row of the object of type t of run r
LedgerRow(f, r, t) ==
    [run |-> r, type |-> t, md5 |-> f[t].md5,
     processing_status |-> f[t].processing_status, reason |-> f[t].reason]

\* a flush that keeps one ledger row per logical type: the row of a session
\* object takes the place of the earlier rows of its type
FlushLedger_one_row_per_type(L, f, r) ==
    { x \in L : ~f[x.type].inSession }
        \cup { LedgerRow(f, r, t) : t \in { u \in Types : f[u].inSession } }

\* flush of the ledger objects of the session: INSERT of the new ones,
\* UPDATE of the modified ones
FlushLedger(L, f, r) ==
    { x \in L : ~(x.run = r /\ f[x.type].inSession) }
        \cup { LedgerRow(f, r, t) : t \in { u \in Types : f[u].inSession } }

\* INSERT of rows S into the entity tables tb
AddRows(tb, S) ==
    [m \in Tables |-> [x \in RowIds |->
        tb[m][x] + (IF << m, x >> \in S THEN 1 ELSE 0)]]

EmptyTables == [m \in Tables |-> [x \in RowIds |-> 0]]

Faults == kills + fails

\* ------------------------------------------------------------------ Init
\* init_db not entered: no create_all attempted, no sleep, no error met
NoInitDb == [tries |-> 0, sleeps |-> 0, rejected |-> 0, hard |-> 0]

\* no second process running; started counts the ones there have been
NoOther == [pc |-> "off", registered |-> {}, started |-> 0]

InitDir == [t \in Types |-> OrderIndex(t)]

Init ==
    /\ pc = "start"
    /\ run = 0
    /\ dir = InitDir
    /\ files = [t \in Types |-> NoFile]
    /\ examined = {}
    /\ idx = 1
    /\ sess = "active"
    /\ ledger = {}
    /\ txLedger = {}
    /\ tables = EmptyTables
    /\ txRows = {}
    /\ pendingRows = {}
    /\ attempts = << >>
    /\ results = [t \in Types |-> "none"]
    /\ ledger0 = {}
    /\ tables0 = EmptyTables
    /\ kills = 0
    /\ fails = 0
    /\ edits = 0
    /\ done = 0
    /\ initdb = NoInitDb
    /\ other = NoOther

\* main parks (line 139) or its process has exited
Stopped == pc \in { "siesta", "fatal", "killed" }

\* lines 143-144: the supervisor ends the stopped process and starts the
\* program again; nothing of the old process is left but the store
Restart ==
    /\ Stopped
    /\ run < MaxRuns
    /\ pc' = "start"
    /\ files' = [t \in Types |-> NoFile]
    /\ examined' = {}
    /\ idx' = 1
    /\ attempts' = << >>
    /\ results' = [t \in Types |-> "none"]
    /\ ledger0' = ledger
    /\ tables0' = tables
    /\ initdb' = NoInitDb
    /\ other' = [NoOther EXCEPT !.started = other.started]
    /\ UNCHANGED << run, dir, sess, ledger, txLedger, tables, txRows,
                    pendingRows, kills, fails, edits, done >>

\* the environment replaces, adds or removes the raw file of one type
EditDir ==
    /\ pc = "start"
    /\ edits < MaxEdits
    /\ run < MaxRuns
    /\ \E t \in Types, h \in 0..MaxHash :
          /\ h # dir[t]
          /\ dir' = [dir EXCEPT ![t] = h]
    /\ edits' = edits + 1
    /\ UNCHANGED << initdb, other, pc, run, files, examined, idx, sess, ledger, txLedger,
                    tables, txRows, pendingRows, attempts, results, ledger0,
                    tables0, kills, fails, done >>

\* main, lines 127-128: a new process creates the engine and enters init_db
main_start ==
    /\ pc = "start"
    /\ run < MaxRuns
    /\ run' = run + 1
    /\ attempts' = << >>
    /\ results' = [t \in Types |-> "none"]
    /\ ledger0' = ledger
    /\ tables0' = tables
    /\ initdb' = NoInitDb
    /\ pc' = "init_db"
    /\ UNCHANGED << other, dir, files, examined, idx, sess, ledger, txLedger,
                    tables, txRows, pendingRows, kills, fails, edits, done >>

\* -------------------------------------------------------------- init_db
\* a handler that sleeps and tries again whatever the exception is
init_db_except_always_sleep(e) == "sleep"

\* a handler that raises whatever the exception is
init_db_except_always_raise(e) == "raise"

\* lines 44-48: the except clause chosen for the exception e of create_all
init_db_except(e) == IF e = "OperationalError" THEN "sleep" ELSE "raise"

\* create_all succeeds and the loop of line 40 is not left: no break
init_db_created_no_break ==
    /\ pc = "init_db"
    /\ UNCHANGED vars

\* lines 40-43, 49-51: create_all succeeds, init_db breaks out of its loop
\* and returns
init_db_created ==
    /\ pc = "init_db"
    /\ initdb' = [initdb EXCEPT !.tries = @ + 1]
    /\ pc' = "returned"
    /\ UNCHANGED << other, run, dir, files, examined, idx, sess, ledger,
                    txLedger, tables, txRows, pendingRows, attempts, results,
                    ledger0, tables0, kills, fails, edits, done >>

\* lines 40-48, one iteration in which create_all raises e: the handler
\* sleeps and the loop goes on, or the exception leaves init_db and main
init_db_raised(e) ==
    /\ pc = "init_db"
    /\ e = "OperationalError" => initdb.rejected < MaxRejects
    /\ e # "OperationalError" => Faults < MaxFaults
    /\ initdb' = [initdb EXCEPT
                    !.tries = @ + 1,
                    !.rejected = @ + (IF e = "OperationalError" THEN 1 ELSE 0),
                    !.hard = @ + (IF e = "OperationalError" THEN 0 ELSE 1),
                    !.sleeps = @ + (IF init_db_except(e) = "sleep"
                                    THEN 1 ELSE 0)]
    /\ pc' = IF init_db_except(e) = "sleep" THEN "init_db" ELSE "fatal"
    /\ fails' = fails + (IF e = "OperationalError" THEN 0 ELSE 1)
    /\ UNCHANGED << other, run, dir, files, examined, idx, sess, ledger,
                    txLedger, tables, txRows, pendingRows, attempts, results,
                    ledger0, tables0, kills, edits, done >>

\* the store is not ready: create_all raises OperationalError
init_db_operational_error == init_db_raised("OperationalError")

\* create_all raises an exception that is not an OperationalError
init_db_exception == init_db_raised("Exception")

\* main, lines 130-131: init_db has returned; the process discovers the
\* files and opens a session
main_discover ==
    /\ pc = "returned"
    /\ files' = get_road_accident_file2model(dir)
    /\ examined' = {}
    /\ idx' = 1
    /\ sess' = "active"
    /\ txLedger' = ledger
    /\ txRows' = {}
    /\ pendingRows' = {}
    /\ initdb' = NoInitDb
    /\ pc' = "reconcile"
    /\ UNCHANGED << other, run, dir, ledger, tables, attempts, results,
                    ledger0, tables0, kills, fails, edits, done >>

\* the process is gone without a commit: Session.__exit__ or the end of the
\* connection rolls back what was not committed
CloseSession ==
    /\ sess' = "active"
    /\ txLedger' = ledger
    /\ txRows' = {}
    /\ pendingRows' = {}

\* ------------------------------------- update_raw_accidents_csv_files_table
\* the query of lines 72-75 restricted to the rows of the same logical type
db_table_entries_same_type(L, f, t) ==
    { x \in L : x.md5 = f[t].md5 /\ x.type = t }

\* lines 72-75: the ledger rows that share the md5 of the descriptor of type t
db_table_entries(L, f, t) == { x \in L : x.md5 = f[t].md5 }

\* the test of line 76 against the wrong member of ProcessingStatus
already_processed_wrong_status(entries) ==
    \E x \in entries : x.processing_status = "pending"

\* line 76: any of them is processed
already_processed(entries) ==
    \E x \in entries : x.processing_status = "processed"

\* one iteration with the commit of line 85 inside the loop of line 68
update_raw_accidents_csv_files_table_commit_each(t) ==
    /\ pc = "reconcile"
    /\ t \in Present(files) \ examined
    /\ LET flushed == FlushLedger(txLedger, files, run)
           after == IF already_processed(db_table_entries(flushed, files, t))
                    THEN [files EXCEPT ![t].processing_status = "processed"]
                    ELSE [files EXCEPT ![t].inSession = TRUE]
       IN /\ files' = after
          /\ ledger' = FlushLedger(txLedger, after, run)
          /\ txLedger' = FlushLedger(txLedger, after, run)
    /\ examined' = examined \cup { t }
    /\ UNCHANGED << initdb, other, pc, run, dir, idx, sess, tables, txRows,
                    pendingRows, attempts, results, ledger0, tables0,
                    kills, fails, edits, done >>

\* lines 68-84, one iteration: the descriptor of type t, in the iteration
\* order of the mapping.  The query of line 75 autoflushes the descriptors
\* added by the earlier iterations.
update_raw_accidents_csv_files_table(t) ==
    /\ pc = "reconcile"
    /\ t \in Present(files) \ examined
    /\ LET flushed == FlushLedger(txLedger, files, run)
       IN /\ txLedger' = flushed
          /\ IF already_processed(db_table_entries(flushed, files, t))
             THEN files' = [files EXCEPT ![t].processing_status = "processed"]
             ELSE files' = [files EXCEPT ![t].inSession = TRUE]
    /\ examined' = examined \cup { t }
    /\ UNCHANGED << initdb, other, pc, run, dir, idx, sess, ledger, tables, txRows,
                    pendingRows, attempts, results, ledger0, tables0,
                    kills, fails, edits, done >>

\* line 85: the commit that ends the loop
update_raw_accidents_csv_files_table_commit ==
    /\ pc = "reconcile"
    /\ examined = Present(files)
    /\ ledger' = FlushLedger(txLedger, files, run)
    /\ txLedger' = ledger'
    /\ pc' = "load"
    /\ idx' = 1
    /\ UNCHANGED << initdb, other, run, dir, files, examined, sess, tables, txRows,
                    pendingRows, attempts, results, ledger0, tables0,
                    kills, fails, edits, done >>

\* ------------------------------------------------------------ add_data_to_db
InLoop == pc = "load" /\ idx <= Len(order_files)

Current == order_files[IF idx <= Len(order_files) THEN idx ELSE 1]

\* line 101 reads processing_status.  The objects of the session were
\* expired by the last commit, so the read is a SELECT in the transaction,
\* after an autoflush; an object that was never added is read from memory.
Line101Flushed == FlushLedger(txLedger, files, run)

Line101Status(t) ==
    IF files[t].inSession
    THEN (CHOOSE x \in Line101Flushed : x.run = run /\ x.type = t).processing_status
    ELSE files[t].processing_status

\* lines 98-102: no file of this type, or its descriptor is marked processed
add_data_to_db_continue ==
    /\ InLoop
    /\ LET t == Current
       IN /\ \/ ~files[t].present
             \/ /\ ~files[t].inSession
                /\ files[t].processing_status = "processed"
          /\ idx' = idx + 1
    /\ UNCHANGED << initdb, other, pc, run, dir, files, examined, sess, ledger, txLedger,
                    tables, txRows, pendingRows, attempts, results, ledger0,
                    tables0, kills, fails, edits, done >>

\* line 101 on a session whose transaction was rolled back by a failed
\* flush: PendingRollbackError, raised outside the try of line 115
add_data_to_db_pending_rollback ==
    /\ InLoop
    /\ files[Current].present
    /\ files[Current].inSession
    /\ sess = "deactive"
    /\ pc' = "fatal"
    /\ CloseSession
    /\ UNCHANGED << initdb, other, run, dir, files, examined, idx, ledger, tables, attempts,
                    results, ledger0, tables0, kills, fails, edits, done >>

\* line 101: the store rejects the autoflush of the rows a failed conversion
\* left in the session; the exception is raised outside the try of line 115
add_data_to_db_autoflush_fails ==
    /\ InLoop
    /\ files[Current].present
    /\ files[Current].inSession
    /\ sess = "active"
    /\ pendingRows # {}
    /\ Faults < MaxFaults
    /\ fails' = fails + 1
    /\ pc' = "fatal"
    /\ CloseSession
    /\ UNCHANGED << initdb, other, run, dir, files, examined, idx, ledger, tables, attempts,
                    results, ledger0, tables0, kills, edits, done >>

\* the load of the current type starts: line 101 found it not processed
Attempt(t) ==
    /\ InLoop
    /\ t = Current
    /\ files[t].present
    /\ files[t].inSession
    /\ sess = "active"
    /\ Line101Status(t) # "processed"
    /\ attempts' = Append(attempts, t)

\* line 104: get_dataframe raises, outside the try of line 115
add_data_to_db_get_dataframe_raises ==
    /\ Attempt(Current)
    /\ Faults < MaxFaults
    /\ fails' = fails + 1
    /\ results' = [results EXCEPT ![Current] = "df"]
    /\ pc' = "fatal"
    /\ CloseSession
    /\ UNCHANGED << initdb, other, run, dir, files, examined, idx, ledger, tables, ledger0,
                    tables0, kills, edits, done >>

\* the assignment of line 117 moved to the finally clause: the status after
\* an exception is the one of a success
processing_status_from_finally == "processed"

\* lines 118-120: the status the handler gives the descriptor
processing_status_on_exception == "failed"

\* lines 58-60 of _add_data_to_table: table_model(**row) raises at row k, the
\* rows before it stay added to the session; lines 118-123 mark the
\* descriptor failed.  Nothing is rolled back.
add_data_to_db_conversion_raises(k) ==
    /\ Attempt(Current)
    /\ Faults < MaxFaults
    /\ fails' = fails + 1
    /\ LET t == Current
       IN /\ txLedger' = Line101Flushed
          /\ txRows' = txRows \cup pendingRows
          /\ pendingRows' = RowsBefore(table_model(t), files[t].md5, k)
          /\ files' = [files EXCEPT ![t].processing_status =
                                        processing_status_on_exception,
                                    ![t].reason = ExceptionRaised]
          /\ results' = [results EXCEPT ![t] = "conversion"]
    /\ idx' = idx + 1
    /\ UNCHANGED << initdb, other, pc, run, dir, examined, sess, ledger, tables, ledger0,
                    tables0, kills, edits, done >>

\* line 61 of _add_data_to_table: the flush inside commit() is rejected by
\* the store.  The session rolls the transaction back, drops the objects it
\* was inserting and stays unusable until rollback(); lines 118-123 mark the
\* descriptor failed in memory.
add_data_to_db_commit_raises ==
    /\ Attempt(Current)
    /\ Faults < MaxFaults
    /\ fails' = fails + 1
    /\ LET t == Current
       IN /\ files' = [files EXCEPT ![t].processing_status =
                                        processing_status_on_exception,
                                    ![t].reason = ExceptionRaised]
          /\ results' = [results EXCEPT ![t] = "commit"]
    /\ txLedger' = ledger
    /\ txRows' = {}
    /\ pendingRows' = {}
    /\ sess' = "deactive"
    /\ idx' = idx + 1
    /\ UNCHANGED << initdb, other, pc, run, dir, examined, ledger, tables, ledger0, tables0,
                    kills, edits, done >>

\* lines 115-117: _add_data_to_table adds every row and commits; the commit
\* makes persistent everything the session holds; then the descriptor is
\* marked processed in memory
add_data_to_db_success ==
    /\ Attempt(Current)
    /\ LET t == Current
       IN /\ ledger' = Line101Flushed
          /\ txLedger' = Line101Flushed
          /\ tables' = AddRows(tables, txRows \cup pendingRows
                                 \cup get_dataframe(table_model(t), files[t].md5))
          /\ files' = [files EXCEPT ![t].processing_status = "processed"]
          /\ results' = [results EXCEPT ![t] = "success"]
    /\ txRows' = {}
    /\ pendingRows' = {}
    /\ idx' = idx + 1
    /\ UNCHANGED << initdb, other, pc, run, dir, examined, sess, ledger0, tables0, kills,
                    fails, edits, done >>

\* -------------------------------------------------------------------- main
AfterLoop == pc = "load" /\ idx = Len(order_files) + 1

\* line 136: the final commit, then the session is closed and main parks
main_commit ==
    /\ AfterLoop
    /\ sess = "active"
    /\ ledger' = FlushLedger(txLedger, files, run)
    /\ txLedger' = ledger'
    /\ tables' = AddRows(tables, txRows \cup pendingRows)
    /\ txRows' = {}
    /\ pendingRows' = {}
    /\ pc' = "siesta"
    /\ done' = done + 1
    /\ UNCHANGED << initdb, other, run, dir, files, examined, idx, sess, attempts, results,
                    ledger0, tables0, kills, fails, edits >>

\* line 136 on a session whose transaction was rolled back by a failed
\* flush: PendingRollbackError
main_commit_pending_rollback ==
    /\ AfterLoop
    /\ sess = "deactive"
    /\ pc' = "fatal"
    /\ CloseSession
    /\ UNCHANGED << initdb, other, run, dir, files, examined, idx, ledger, tables, attempts,
                    results, ledger0, tables0, kills, fails, edits, done >>

\* line 136: the store rejects the flush of the rows a failed conversion
\* left in the session
main_commit_raises ==
    /\ AfterLoop
    /\ sess = "active"
    /\ pendingRows # {}
    /\ Faults < MaxFaults
    /\ fails' = fails + 1
    /\ pc' = "fatal"
    /\ CloseSession
    /\ UNCHANGED << initdb, other, run, dir, files, examined, idx, ledger, tables, attempts,
                    results, ledger0, tables0, kills, edits, done >>

\* the process exits (killed, host restarted) between two steps of a run;
\* its memory is lost with it
Interrupt ==
    /\ pc \in { "reconcile", "load" }
    /\ Faults < MaxFaults
    /\ kills' = kills + 1
    /\ pc' = "killed"
    /\ CloseSession
    /\ files' = [t \in Types |-> NoFile]
    /\ examined' = {}
    /\ idx' = 1
    /\ attempts' = << >>
    /\ results' = [t \in Types |-> "none"]
    /\ UNCHANGED << initdb, other, run, dir, ledger, tables, ledger0, tables0, fails, edits,
                    done >>

Next ==
    \/ Restart
    \/ EditDir
    \/ main_start
    \/ init_db_created
    \/ init_db_operational_error
    \/ init_db_exception
    \/ main_discover
    \/ \E t \in Types : update_raw_accidents_csv_files_table(t)
    \/ update_raw_accidents_csv_files_table_commit
    \/ add_data_to_db_continue
    \/ add_data_to_db_pending_rollback
    \/ add_data_to_db_autoflush_fails
    \/ add_data_to_db_get_dataframe_raises
    \/ \E k \in 1..NRows : add_data_to_db_conversion_raises(k)
    \/ add_data_to_db_commit_raises
    \/ add_data_to_db_success
    \/ main_commit
    \/ main_commit_pending_rollback
    \/ main_commit_raises
    \/ Interrupt

Spec == Init /\ [][Next]_vars

\* The runs of main over one unchanged directory: Spec without EditDir.
NextFixed ==
    \/ Restart
    \/ main_start
    \/ init_db_created
    \/ init_db_operational_error
    \/ init_db_exception
    \/ main_discover
    \/ \E t \in Types : update_raw_accidents_csv_files_table(t)
    \/ update_raw_accidents_csv_files_table_commit
    \/ add_data_to_db_continue
    \/ add_data_to_db_pending_rollback
    \/ add_data_to_db_autoflush_fails
    \/ add_data_to_db_get_dataframe_raises
    \/ \E k \in 1..NRows : add_data_to_db_conversion_raises(k)
    \/ add_data_to_db_commit_raises
    \/ add_data_to_db_success
    \/ main_commit
    \/ main_commit_pending_rollback
    \/ main_commit_raises
    \/ Interrupt

SpecFixed == Init /\ [][NextFixed]_vars

\* ------------------------------------------------ a second process of main
\* Two processes of main on the same store and the same directory.  The
\* second one is followed by its commits only: its reconciliation is one
\* transaction (lines 68-85), and so is, when every load succeeds, each of
\* its loads; the steps below are the reconciliation and the loads with the
\* final commit.  It reads the committed ledger, and what it commits is seen
\* by the queries of the first process.

\* ledger rows of the second process that overlaps run r
OtherRows(reg, r, status) ==
    { [run |-> 0 - r, type |-> t, md5 |-> dir[t],
       processing_status |-> status, reason |-> NoReason] : t \in reg }

\* lines 64-86 in the second process, started while the first one is between
\* its discovery and its final commit
other_update_raw_accidents_csv_files_table ==
    /\ pc \in { "reconcile", "load" }
    /\ other.pc = "off"
    /\ other.started < MaxOthers
    /\ LET f == get_road_accident_file2model(dir)
           reg == { t \in Present(f) :
                      ~already_processed(db_table_entries(ledger, f, t)) }
       IN /\ ledger' = ledger \cup OtherRows(reg, run, "pending")
          /\ txLedger' = txLedger \cup OtherRows(reg, run, "pending")
          /\ other' = [pc |-> "reconciled", registered |-> reg,
                       started |-> other.started + 1]
    /\ UNCHANGED << pc, run, dir, files, examined, idx, sess, tables, txRows,
                    pendingRows, attempts, results, ledger0, tables0, kills,
                    fails, edits, done, initdb >>

\* lines 89-123 and line 136 in the second process, every load succeeding:
\* the registered files are loaded and marked processed
other_add_data_to_db ==
    /\ other.pc = "reconciled"
    /\ LET mine == OtherRows(other.registered, run, "pending")
           marked == OtherRows(other.registered, run, "processed")
       IN /\ ledger' = (ledger \ mine) \cup marked
          /\ txLedger' = (txLedger \ mine) \cup marked
    /\ tables' = AddRows(tables,
                         UNION { get_dataframe(table_model(t), dir[t]) :
                                 t \in other.registered })
    /\ other' = [other EXCEPT !.pc = "loaded"]
    /\ UNCHANGED << pc, run, dir, files, examined, idx, sess, txRows,
                    pendingRows, attempts, results, ledger0, tables0, kills,
                    fails, edits, done, initdb >>

\* runs over an unchanged directory in which no call raises and that nothing
\* ends from outside, one of them overlapped by a second process
NextOverlap ==
    \/ Restart
    \/ main_start
    \/ init_db_created
    \/ main_discover
    \/ \E t \in Types : update_raw_accidents_csv_files_table(t)
    \/ update_raw_accidents_csv_files_table_commit
    \/ add_data_to_db_continue
    \/ add_data_to_db_success
    \/ main_commit
    \/ other_update_raw_accidents_csv_files_table
    \/ other_add_data_to_db

SpecOverlap == Init /\ [][NextOverlap]_vars

\* ------------------------------------------------------------- progress
\* the steps of the process of main in which the store and the files do what
\* they are asked: one thread, which executes its next statement as long as
\* it has one
ProgramStep ==
    \/ main_start
    \/ init_db_created
    \/ main_discover
    \/ \E t \in Types : update_raw_accidents_csv_files_table(t)
    \/ update_raw_accidents_csv_files_table_commit
    \/ add_data_to_db_continue
    \/ add_data_to_db_pending_rollback
    \/ add_data_to_db_success
    \/ main_commit
    \/ main_commit_pending_rollback

\* the steps in which the store or a file makes a call raise
FaultStep ==
    \/ init_db_operational_error
    \/ init_db_exception
    \/ add_data_to_db_autoflush_fails
    \/ add_data_to_db_get_dataframe_raises
    \/ \E k \in 1..NRows : add_data_to_db_conversion_raises(k)
    \/ add_data_to_db_commit_raises
    \/ main_commit_raises

\* runs over an unchanged directory that nothing ends from outside
NextLive ==
    \/ Restart
    \/ ProgramStep
    \/ FaultStep

\* the process is not suspended for ever: weak fairness of its steps.  A call
\* may raise but is not bound to; the store raises OperationalError at most
\* MaxRejects times in one init_db: it eventually accepts connections.
SpecLive == Init /\ [][NextLive]_vars /\ WF_vars(ProgramStep)

\* One run of main over any directory, on the store that earlier runs left:
\* for every content h of P, the store holds what a run of main without
\* failure leaves for the file of type order_files[h] and content h (its
\* ledger row, processed, and its rows).
Seen == 1..MaxSeen

SeenLedger(P) ==
    { [run |-> 0, type |-> order_files[h], md5 |-> h,
       processing_status |-> "processed", reason |-> NoReason] : h \in P }

SeenTables(P) ==
    AddRows(EmptyTables,
            UNION { get_dataframe(table_model(order_files[h]), h) : h \in P })

InitOne ==
    /\ pc = "start"
    /\ run = 0
    /\ dir \in [Types -> 0..MaxSeen]
    /\ files = [t \in Types |-> NoFile]
    /\ examined = {}
    /\ idx = 1
    /\ sess = "active"
    /\ \E P \in SUBSET Seen :
          /\ ledger = SeenLedger(P)
          /\ txLedger = SeenLedger(P)
          /\ tables = SeenTables(P)
          /\ ledger0 = SeenLedger(P)
          /\ tables0 = SeenTables(P)
    /\ txRows = {}
    /\ pendingRows = {}
    /\ attempts = << >>
    /\ results = [t \in Types |-> "none"]
    /\ kills = 0
    /\ fails = 0
    /\ edits = 0
    /\ done = 0
    /\ initdb = NoInitDb
    /\ other = NoOther

NextOne ==
    \/ main_start
    \/ init_db_created
    \/ init_db_operational_error
    \/ init_db_exception
    \/ main_discover
    \/ \E t \in Types : update_raw_accidents_csv_files_table(t)
    \/ update_raw_accidents_csv_files_table_commit
    \/ add_data_to_db_continue
    \/ add_data_to_db_pending_rollback
    \/ add_data_to_db_autoflush_fails
    \/ add_data_to_db_get_dataframe_raises
    \/ \E k \in 1..NRows : add_data_to_db_conversion_raises(k)
    \/ add_data_to_db_commit_raises
    \/ add_data_to_db_success
    \/ main_commit
    \/ main_commit_pending_rollback
    \/ main_commit_raises
    \/ Interrupt

SpecOne == InitOne /\ [][NextOne]_vars

TypeOK ==
    /\ pc \in { "start", "init_db", "returned", "reconcile", "load", "siesta",
               "fatal", "killed" }
    /\ initdb.tries = initdb.rejected + initdb.hard
                      + (IF pc = "returned" THEN 1 ELSE 0)
    /\ initdb.rejected \in 0..MaxRejects
    /\ run \in 0..MaxRuns
    /\ done \in 0..run
    /\ sess \in { "active", "deactive" }
    /\ idx \in 1..(Len(order_files) + 1)
    /\ examined \subseteq Types
    /\ pendingRows \subseteq Tables \X RowIds
    /\ txRows \subseteq Tables \X RowIds

\* a descriptor the reconciliation did not add to the session is marked
\* processed: line 101 never reads pending from memory
TransientIsProcessed ==
    pc = "load" =>
        \A t \in Present(files) :
            ~files[t].inSession => files[t].processing_status = "processed"

\* ------------------------------------------------------------------ claims
EndOfRun == pc \in { "siesta", "fatal" }

FailedLoad(t) == results[t] \in { "conversion", "commit" }

Processed(L, h) == { x \in L : x.md5 = h /\ x.processing_status = "processed" }

NewRows(t) == { x \in ledger : x.run = run /\ x.type = t }

Count(t) == Cardinality({ i \in DOMAIN attempts : attempts[i] = t })

NoDuplicateRows == \A m \in Tables : \A x \in RowIds : tables[m][x] <= 1

\* C1: with the files unchanged, a second complete execution after a first
\* complete one inserts no ledger row for a content hash that already has
\* one and no entity row a second time, whatever the outcome of the loads of
\* the first execution.
C1_IdempotentRerun ==
    (run = 2 /\ done >= 1 /\ edits = 0 /\ kills = 0) =>
        /\ \A x \in ledger : x.run = 2 => ~(\E y \in ledger0 : y.md5 = x.md5)
        /\ NoDuplicateRows

\* C2: over runs on the same file contents that are only interrupted by
\* process exits, the rows of a file content are committed at most once.
C2_ExactlyOnceUnderRestart ==
    (edits = 0 /\ fails = 0) => NoDuplicateRows

\* C3: from an empty store, one file per type with unique hashes and every
\* load succeeding: a complete run leaves 4 ledger records, all processed,
\* and each table with exactly the rows of its file; a second run on the
\* same directory changes neither the ledger nor the tables.
UniqueFiles ==
    /\ Present(files) = Types
    /\ \A t, u \in Types : files[t].md5 = files[u].md5 => t = u

EndToEnd(L, T) ==
    /\ L = { [run |-> 1, type |-> t, md5 |-> files[t].md5,
              processing_status |-> "processed", reason |-> NoReason] :
             t \in Types }
    /\ T = AddRows(EmptyTables,
                   UNION { get_dataframe(table_model(t), files[t].md5) :
                           t \in Types })

C3_EndToEnd ==
    /\ ( /\ run = 1 /\ pc = "siesta" /\ UniqueFiles
         /\ \A t \in Types : results[t] = "success" )
       => ( EndToEnd(ledger, tables) /\ Cardinality(ledger) = 4 )
    /\ ( run = 2 /\ pc # "start" /\ UniqueFiles /\ EndToEnd(ledger0, tables0) )
       => ( /\ ledger = ledger0 /\ txLedger = ledger0 /\ tables = tables0
            /\ attempts = << >> /\ txRows = {} /\ pendingRows = {} )

C3_Witness ==
    /\ run = 2 /\ pc = "siesta" /\ UniqueFiles
    /\ EndToEnd(ledger0, tables0) /\ EndToEnd(ledger, tables)

\* C4: at most one ledger record per content hash has status processed.
C4_OneProcessedPerHash ==
    \A h \in Hashes : Cardinality(Processed(ledger, h)) <= 1

\* C5: a file whose content hash had a processed ledger record when the run
\* started is not loaded in that run and gets no ledger row, under whatever
\* type it is rediscovered and whatever happens to the other loads.
C5_ProcessedNeverReloaded ==
    \A t \in Present(files) :
        Processed(ledger0, files[t].md5) # {} =>
            /\ Count(t) = 0
            /\ results[t] = "none"
            /\ ~files[t].inSession
            /\ \A x \in ledger \cup txLedger : ~(x.run = run /\ x.type = t)
            /\ tables[table_model(t)] = tables0[table_model(t)]

C5_Witness ==
    /\ pc = "siesta"
    /\ \E t \in Present(files) :
          /\ Processed(ledger0, files[t].md5) # {}
          /\ \A y \in Processed(ledger0, files[t].md5) : y.type # t
          /\ \E u \in Types : FailedLoad(u)

\* C6: in a run with the four files where only the vehicles load fails, at
\* the end of the run the ledger records of the three other types are
\* processed and the vehicles record is failed.
C6_FaultIsolation ==
    ( /\ EndOfRun /\ run = 1 /\ edits = 0 /\ kills = 0 /\ fails = 1
      /\ FailedLoad("vehicules") )
    => /\ \A t \in Types \ { "vehicules" } :
              \E x \in NewRows(t) : x.processing_status = "processed"
       /\ \E x \in NewRows("vehicules") : x.processing_status = "failed"

\* C7: at the end of a run every type that is present and not marked
\* processed has had exactly one load attempt, whatever load failed.
C7_EveryTypeAttempted ==
    EndOfRun =>
        \A t \in Present(files) :
            /\ files[t].inSession => Count(t) = 1
            /\ Count(t) <= 1

\* C8: a file whose hash has no ledger entry gets exactly one pending record
\* from the reconciliation; at the end of the run that record is processed
\* if the load succeeded and failed with a reason if the load failed (stated
\* for the behaviours with at most one failure and no process exit).
NoPriorEntry(t) ==
    /\ files[t].present
    /\ ~(\E y \in ledger0 : y.md5 = files[t].md5)

C8_PendingThenSettled ==
    \A t \in Types : (NoPriorEntry(t) /\ fails <= 1 /\ kills = 0) =>
        /\ (pc = "load" /\ idx = 1) =>
              /\ Cardinality(NewRows(t)) = 1
              /\ \A x \in NewRows(t) : x.processing_status = "pending"
        /\ (EndOfRun /\ results[t] = "success") =>
              \A x \in NewRows(t) : x.processing_status = "processed"
        /\ (EndOfRun /\ FailedLoad(t)) =>
              \A x \in NewRows(t) :
                  x.processing_status = "failed" /\ x.reason # NoReason
        /\ pc = "siesta" =>
              \A x \in NewRows(t) : x.processing_status # "pending"

\* C9: the loads of a run are attempted in the order characteristics,
\* locations, vehicles, users, restricted to the types that are present and
\* not processed, whatever the order of the reconciliation.
DependencyOrder == << "caracteristiques", "lieux", "vehicules", "usagers" >>

Rank(t) == CHOOSE i \in 1..4 : DependencyOrder[i] = t

C9_FixedOrder ==
    /\ \A i, j \in DOMAIN attempts :
          i < j => Rank(attempts[i]) < Rank(attempts[j])
    /\ \A i \in DOMAIN attempts :
          /\ files[attempts[i]].present
          /\ files[attempts[i]].inSession
          /\ \A u \in Types :
                (files[u].inSession /\ Rank(u) < Rank(attempts[i]))
                    => \E j \in 1..(i-1) : attempts[j] = u

C9_Witness ==
    /\ attempts = << "caracteristiques", "vehicules", "usagers" >>
    /\ files["lieux"].present
    /\ ~files["lieux"].inSession
    /\ fails > 0

\* C10: none of the rows of a file whose load failed is committed, by the
\* failed attempt or by a later commit of the session.
C10_FailedLoadCommitsNothing ==
    \A t \in Types :
        FailedLoad(t) => tables[table_model(t)] = tables0[table_model(t)]

\* the file of type t carries a content whose load failed in an earlier run
\* and has not succeeded since
FailedBefore(t) ==
    /\ files[t].present
    /\ \E x \in ledger0 : x.md5 = files[t].md5 /\ x.processing_status = "failed"
    /\ Processed(ledger0, files[t].md5) = {}

\* C11: failed is not terminal.  A run that ends, by the parked state or by
\* an error, has attempted the load of every file whose content has a failed
\* record and no processed record from the earlier runs.  Runs in which the
\* conversion of a file to a dataframe raised are left out: that error is
\* outside the handler of add_data_to_db and ends the run by design.  The
\* files of the run have distinct contents.
C11_FailedIsRetried ==
    \A t \in Types :
        (/\ EndOfRun
         /\ FailedBefore(t)
         /\ UniqueFiles
         /\ \A u \in Types : results[u] # "df")
            => Count(t) = 1

\* C12: connection retry.  When create_all has raised OperationalError n
\* times and then succeeds, init_db returns after n + 1 attempts and n sleeps
\* and no error is raised: an OperationalError never ends the run, and as
\* long as no other exception is met every rejected attempt was followed by
\* one sleep and one more attempt.
C12_ConnectionRetry ==
    /\ pc = "returned" =>
          /\ initdb.hard = 0
          /\ initdb.tries = initdb.rejected + 1
          /\ initdb.sleeps = initdb.rejected
    /\ (pc = "init_db" /\ initdb.hard = 0) =>
          /\ initdb.tries = initdb.rejected
          /\ initdb.sleeps = initdb.rejected
    /\ (pc = "fatal" /\ initdb.tries > 0) => initdb.hard > 0

\* the store rejected two attempts and accepted the third: init_db returned
C12_Witness ==
    /\ pc = "returned"
    /\ initdb.rejected = 2
    /\ initdb.tries = 3
    /\ initdb.sleeps = 2

\* C13: an exception of create_all that is not an OperationalError leaves
\* init_db on the attempt that raised it: no attempt and no sleep follow, the
\* run is over, and no file was discovered, no load attempted and nothing
\* written to the ledger or to the entity tables by this run.
C13_FatalInitialization ==
    initdb.hard > 0 =>
        /\ pc = "fatal"
        /\ initdb.hard = 1
        /\ initdb.tries = initdb.rejected + 1
        /\ initdb.sleeps = initdb.rejected
        /\ Present(files) = {}
        /\ attempts = << >>
        /\ ledger = ledger0 /\ txLedger = ledger0
        /\ tables = tables0 /\ txRows = {} /\ pendingRows = {}

\* the second run met an OperationalError, then another exception, over a
\* store that the first run had filled
C13_Witness ==
    /\ pc = "fatal"
    /\ run > 1
    /\ initdb.hard = 1
    /\ initdb.rejected > 0
    /\ ledger # {}

\* C14: a persisted ledger record with status processed is terminal and
\* immutable.  No step, of the run that wrote it or of a later run, changes
\* one of its fields or deletes it: it is in the persisted ledger after the
\* step exactly as it was before.
C14_ProcessedIsImmutable ==
    [][\A x \in ledger : x.processing_status = "processed" => x \in ledger']_vars

\* a run over a store with a processed record has ended after a failed load
\* and has persisted a new record of the same type as the processed one
C14_Witness ==
    /\ pc = "siesta"
    /\ \E t \in Types : FailedLoad(t)
    /\ \E x \in ledger0, y \in ledger \ ledger0 :
          /\ x.processing_status = "processed"
          /\ x \in ledger
          /\ y.type = x.type

\* C15: a failure in the load of a later type never reverts an earlier
\* success.  When a run ends, by the parked state or by an error, every type
\* whose load succeeded in the run has its rows in its table and its ledger
\* record of the run persisted as processed.
C15_SuccessIsKept ==
    \A t \in Types :
        (EndOfRun /\ kills = 0 /\ results[t] = "success") =>
            /\ \A r \in get_dataframe(table_model(t), files[t].md5) :
                  tables[r[1]][r[2]] >= 1
            /\ \E x \in NewRows(t) : x.processing_status = "processed"

\* the file content h was registered by two processes, both loaded it
LoadedByBoth(h) ==
    /\ \E x, y \in ledger :
          /\ x.md5 = h /\ y.md5 = h
          /\ x.run > 0 /\ y.run < 0
          /\ x.type = y.type
          /\ \A i \in 1..NRows : tables[table_model(x.type)][<< h, i >>] >= 2

\* the file content h has ledger rows of two runs and its rows twice
LoadedTwice(h) ==
    \E x, y \in ledger :
        /\ x.md5 = h /\ y.md5 = h
        /\ x.run # y.run
        /\ \E i \in 1..NRows : tables[table_model(x.type)][<< h, i >>] >= 2

\* C16: the hash check followed by the insert is not atomic.  With runs
\* that do not overlap and in which nothing fails (no step of SpecOverlap
\* fails), no file content is registered by two runs and loaded twice; the
\* witness is the state, reached when two runs overlap, in which both have
\* inserted a ledger row for the same content and both have loaded the file.
C16_NoRaceWithoutOverlap ==
    (other.started = 0 /\ fails = 0 /\ kills = 0) =>
        \A h \in Hashes : ~LoadedTwice(h)

\* two overlapping runs in which nothing failed have both registered and
\* both loaded the same content, and both records are processed
C16_Witness ==
    /\ other.started = 1 /\ fails = 0 /\ kills = 0
    /\ pc = "siesta"
    /\ other.pc = "loaded"
    /\ \E h \in Hashes :
          /\ LoadedByBoth(h)
          /\ Cardinality(Processed(ledger, h)) = 2

\* the ledger rows of the descriptors that the reconciliation added
AddedByReconcile == { LedgerRow(files, run, t) : t \in { u \in Types : files[u].inSession } }

\* C17: the reconciliation commits once, after all descriptors.  As long as
\* it runs the persisted ledger is the one of the start of the run; a step
\* that does not end it, an iteration or the exit of the process, leaves the
\* persisted ledger as it is; the step that ends it keeps every row there
\* was, unchanged, and adds the rows of all the descriptors it registered,
\* together, each one pending.
C17_ReconcileCommitsOnce ==
    [][pc = "reconcile" =>
          /\ ledger = ledger0
          /\ pc' # "load" => ledger' = ledger
          /\ pc' = "load" =>
                /\ ledger \subseteq ledger'
                /\ ledger' \ ledger = AddedByReconcile
                /\ \A x \in ledger' \ ledger :
                      x.processing_status = "pending"]_vars

\* the reconciliation has just committed two rows or more into a ledger that
\* held a record already
C17_Witness ==
    /\ pc = "load" /\ idx = 1 /\ attempts = << >>
    /\ ledger0 # {}
    /\ ledger0 \subseteq ledger
    /\ Cardinality(ledger \ ledger0) >= 2

\* every row of the file of record x is in the table of its type
RowsCommitted(x) ==
    \A r \in get_dataframe(table_model(x.type), x.md5) : tables[r[1]][r[2]] >= 1

\* C19: in every reachable persisted state, a ledger record with status
\* processed has the complete row set of its file committed to its entity
\* table; no record is persisted as processed while rows of its file are
\* missing.
C19_ProcessedImpliesRows ==
    \A x \in ledger : x.processing_status = "processed" => RowsCommitted(x)

\* a run has ended with a processed record of its own, and with a failed
\* record whose file is only partly in its table
C19_Witness ==
    /\ pc = "siesta"
    /\ \E x \in ledger : x.run = run /\ x.processing_status = "processed"
    /\ \E y \in ledger :
          /\ y.processing_status = "failed"
          /\ ~RowsCommitted(y)
          /\ tables[table_model(y.type)][<< y.md5, 1 >>] >= 1

\* C18: once init_db has returned, the run eventually reaches the parked
\* state or ends on an error, whatever loads fail; and init_db, entered over a
\* store that eventually accepts connections, eventually returns, unless
\* create_all raises an exception that is not an OperationalError.
C18_RunEnds ==
    /\ (pc = "returned") ~> (pc \in { "siesta", "fatal" })
    /\ (pc = "init_db") ~> (pc = "returned" \/ (pc = "fatal" /\ initdb.hard > 0))

\* a run in which two loads failed has reached the parked state
C18_Witness ==
    /\ pc = "siesta"
    /\ Cardinality({ t \in Types : FailedLoad(t) }) >= 2
    /\ Len(attempts) = Len(order_files)

====
